---- MODULE Spec2Model ----
(***************************************************************************)
(* A model of the job worker of grpc-job-manager: the registry of jobs,    *)
(* Start with its reaper goroutine, Stop, Status and the Output tailer     *)
(* with its inotify watcher.  Every critical section of Worker.mu is one   *)
(* atomic step; what the code does outside the lock (reading /proc,        *)
(* signalling, copying the Status it returns, reading the capture file,    *)
(* channel operations) is a step of its own, so that the other goroutines  *)
(* interleave with it exactly where the code lets them.                    *)
(***************************************************************************)
EXTENDS Integers, Sequences, FiniteSets, TLC

\* ------------------------------------------------------------------ bounds
\* Number of Start calls; call s generates uuid s.
MaxJobs == 2
\* Number of Status calls, of Stop calls.
MaxStatusCalls == 2
MaxStopCalls == 1
\* Number of concurrent Output subscriptions whose reads and events are followed;
\* the specification of two independent subscribers follows one more.
MaxSubs == 1
\* Bytes the child writes to its capture file at most.
MaxFile == 3
\* Worker.Config.ChunkSize, scaled down from 64 KiB.
ChunkSize == 2

Handles == 1..MaxJobs
\* The specifications that follow one job through its life start this one.
FirstJob == {1}
FirstCall == {1}
\* uuid 0 is a well-formed uuid that Start never generates.
UUIDs == 0..MaxJobs
StatusCalls == 1..MaxStatusCalls
StopCalls == 1..MaxStopCalls
\* The specification of two consecutive Stop calls follows one more.
AllStops == 1..(MaxStopCalls + 1)
\* Number of requests followed through the gRPC server.
MaxRequests == 2
Requests == 1..MaxRequests
Subs == 1..MaxSubs
AllSubs == 1..(MaxSubs + 1)
\* Exit codes of a child that exits by itself.
ExitCodes == {0, 1}
\* State letters /proc/<pid>/stat shows for a process that has not terminated.
LiveLetters == {"R", "S", "D", "T", "t"}

VARIABLES
    jobs,       \* Worker.jobs: uuid -> Job (pid, status)
    proc,       \* the child of each Start call: "none", "alive", "zombie", "reaped"
    wstatus,    \* the wait status of a terminated child
    file,       \* the bytes of each capture file
    stpc,       \* Start calls: position in Worker.Start
    rpc,        \* reaper goroutines: position
    spc, sarg, sloc, sret,   \* Status calls: position, argument, locals, result
    kpc, karg, kret,         \* Stop calls: position, argument, result
    returned,        \* history: uuids that Start has returned to its caller
    reportedExited,  \* history: uuids for which a Status call has returned EXITED
    sbegin,          \* history: what held when each Status call began
    kbegin,          \* history: the state of the child when a Stop call began, where noted
    sub,             \* Output subscriptions: the tailer, its watcher, its consumer
    rx,              \* the rexec helper of each child: position, cgroups made and joined
    req,             \* requests at the gRPC server: method, caller's role, progress
    config           \* Worker.Config: the output path

childVars == <<proc, wstatus, file>>
startVars == <<stpc, rpc>>
statusVars == <<spc, sarg, sloc, sret>>
stopVars == <<kpc, karg, kret>>
histVars == <<returned, reportedExited, sbegin, kbegin>>
\* The rexec helper inside each child, the requests at the gRPC server, and
\* the worker's configuration.
auxVars == <<rx, req, config>>
vars == <<jobs, childVars, startVars, statusVars, stopVars, histVars, sub, auxVars>>

\* ------------------------------------------------------------------ data
\* The zero value Status{}.
EmptyStatus == [State |-> "", Terminated |-> FALSE, ExitCode |-> 0, Exited |-> FALSE]

\* A Job built with the flag already set.
NewJobTerminated(s) ==
    [UUID |-> s, pid |-> s, status |-> [EmptyStatus EXCEPT !.Terminated = TRUE]]

\* The Job that Start builds: status &Status{Terminated: false}.
NewJob(s) == [UUID |-> s, pid |-> s, status |-> EmptyStatus]

\* A Start that returns the uuid without inserting the job.
RegisterJobLost(js, s) == js

\* w.jobs[uniqueJobId] = job
RegisterJob(js, s) ==
    [h \in DOMAIN js \cup {s} |-> IF h = s THEN NewJob(s) ELSE js[h]]

\* A lookup that does not test ok.
getJobByUUIDAny(u) == TRUE

\* getJobByUUID: ok is false when the uuid is not in the map.
getJobByUUID(u) == u \in DOMAIN jobs

\* A write that replaces the Status by a fresh one holding only the new field.
SetStatusFresh(js, h, field, value) ==
    IF h \in DOMAIN js
      THEN [js EXCEPT ![h].status = [EmptyStatus EXCEPT ![field] = value]]
      ELSE js

\* A write to a Status record that all the jobs share.
SetStatusEveryJob(js, h, field, value) ==
    IF h \in DOMAIN js
      THEN [u \in DOMAIN js |-> [js[u] EXCEPT !.status = [js[u].status EXCEPT ![field] = value]]]
      ELSE js

\* A write through the *Job pointer; the map shows it when the job is registered.
SetStatus(js, h, field, value) ==
    IF h \in DOMAIN js
      THEN [js EXCEPT ![h].status = [js[h].status EXCEPT ![field] = value]]
      ELSE js

\* os.ProcessState.ExitCode(): -1 when the process was terminated by a signal.
ExitCodeOf(ws) == IF ws.signaled THEN -1 ELSE ws.code
\* os.ProcessState.Exited(): false when the process was terminated by a signal.
ExitedOf(ws) == ~ws.signaled

\* The switch of Status on the /proc state letter.
MapState(letter) ==
    CASE letter \in {"R", "S", "D"} -> "RUNNING"
      [] letter = "Z" -> "ZOMBIE"
      [] letter = "T" -> "STOPPED"
      [] OTHER -> letter

LiveStates == {"RUNNING", "STOPPED", "ZOMBIE"}

Min(a, b) == IF a < b THEN a ELSE b

\* The reaper goroutine of h has left the critical section that records the
\* exit of the child.
Finalized(h) == rpc[h] \in {"cgroups", "close", "done"}

\* A subscription slot before Output is called on it.
\*   pc        the tailer goroutine's position
\*   uuid      the argument of Output
\*   ret       what Output returned: "none", "NotFound" or "stream"
\*   fopen     the read handle f is open
\*   pos       the file offset of f
\*   chunk     the chunk readChunk is sending
\*   received  history: the bytes the consumer has received, in order
\*   dclosed   dataStream is closed
\*   cancelled ctx is done
\*   wpc       the watcher goroutine's position ("read": inside unix.Read,
\*             "send": in its select, "closed": returned; the inotify watch
\*             exists while it is at "read" or "send")
\*   evq       an unread IN_MODIFY event is queued on the inotify descriptor
\*   exitedAtStart  history: the job's exited flag was set when Output was called
IdleSub ==
    [pc |-> "idle", uuid |-> 0, ret |-> "none", fopen |-> FALSE, pos |-> 0,
     chunk |-> <<>>, received |-> <<>>, dclosed |-> FALSE, cancelled |-> FALSE,
     wpc |-> "none", evq |-> FALSE, exitedAtStart |-> FALSE]

\* The inotify watch of subscription o is on the capture file of h.
Watching(o, h) == sub[o].uuid = h /\ sub[o].wpc \in {"read", "send"}

\* n of n, err := file.Read(chunk) at offset p of a file holding f; 0 means io.EOF.
ReadCount(f, p) == Min(ChunkSize, Len(f) - p)

\* chunk after that Read: make([]byte, ChunkSize) with the n bytes read at its start.
ReadBuf(f, p) == [i \in 1..ChunkSize |-> IF i <= ReadCount(f, p) THEN f[p + i] ELSE 0]

\* Sending chunk instead of chunk[:n].
SendWhole(buf, n) == buf

\* chunk[:n], what readChunk sends.
ChunkSlice(buf, n) == SubSeq(buf, 1, n)

\* filepath.Join on paths held as sequences of their elements.
Join(a, b) == a \o b

\* os.TempDir().
TempDir == <<"tmp">>

\* The default of Config.Outpath, and the values a user of the Worker may
\* assign to it.
DefaultOutpath == Join(TempDir, <<"jobmanager">>)
Outpaths == {DefaultOutpath, <<"var", "jobs">>}

\* createOutFile: the capture file of uuid is <TempDir>/jobmanager/<uuid>.
createOutFilePath(uuid) == Join(Join(TempDir, <<"jobmanager">>), <<uuid>>)

\* Output: outFilePath := filepath.Join(w.Config.Outpath, uuid)
outFilePath(cfg, uuid) == Join(cfg.Outpath, <<uuid>>)

\* cgroupParamsMap: the controllers a job's cgroup is created under.
Controllers == {"blkio", "cpu,cpuacct", "memory"}

\* The rexec helper before the child runs.
\*   pc        its position: "none" (before Rexec), "loop" (at the head of the
\*             loop of createCgroup), "configure", "wait" (in cmd.Run),
\*             "returned" (Rexec has returned), "done" (the helper has exited)
\*   err       what Rexec returns: "nil", "stat", "cgroup" or "run"
\*   todo      the controllers createCgroup has not yet come to
\*   cur       the controller of the current iteration
\*   made      the controllers under which the directory <pid> exists
\*   joined    the controllers to whose cgroup.procs the helper has written itself
\*   started   the user command has been started
IdleRexec ==
    [pc |-> "none", err |-> "nil", todo |-> Controllers, cur |-> "", made |-> {},
     joined |-> {}, started |-> FALSE]

\* roleMap: the roles that may call each method.
roleMap ==
    ("/job.JobManager/Start" :> <<"admin">>)
        @@ ("/job.JobManager/Stop" :> <<"admin">>)
        @@ ("/job.JobManager/Status" :> <<"admin", "user">>)
        @@ ("/job.JobManager/Output" :> <<"admin", "user">>)

\* The methods of service JobManager, and those of them that are unary; Output
\* returns a stream.
Methods == {"/job.JobManager/Start", "/job.JobManager/Stop", "/job.JobManager/Status",
            "/job.JobManager/Output"}
UnaryMethods == {"/job.JobManager/Start", "/job.JobManager/Stop", "/job.JobManager/Status"}

\* A method name the table does not have.
AbsentMethod == "/job.JobManager/Restart"

\* The roles that the certificates of the callers carry.
Roles == {"admin", "user", "guest"}

\* An isAuthorized that lets a method through when the table lacks it.
isAuthorizedAbsentAllowed(method, role) ==
    IF method \notin DOMAIN roleMap
    THEN TRUE
    ELSE \E i \in 1..Len(roleMap[method]) : role = roleMap[method][i]

\* isAuthorized: false for a method the table lacks, else whether role is
\* among the method's entries.
isAuthorized(method, role) ==
    IF method \notin DOMAIN roleMap
    THEN FALSE
    ELSE \E i \in 1..Len(roleMap[method]) : role = roleMap[method][i]

\* A request slot before a request arrives.
\*   pc        "idle", "intercept" (in unaryInterceptor), "handler", "denied"
\*   method    info.FullMethod
\*   cert      the verified client certificate: "none" (no request yet),
\*             "norole" (Subject.Organization is empty) or "role"
\*   role      peerCerts[0].Subject.Organization[0]
IdleRequest == [pc |-> "idle", method |-> "", cert |-> "none", role |-> ""]

\* ------------------------------------------------------------------ Init
Init ==
    /\ sub = [o \in AllSubs |-> IdleSub]
    /\ jobs = <<>>
    /\ proc = [h \in Handles |-> "none"]
    /\ wstatus = [h \in Handles |-> [signaled |-> FALSE, code |-> 0]]
    /\ file = [h \in Handles |-> <<>>]
    /\ stpc = [s \in Handles |-> "idle"]
    /\ rpc = [h \in Handles |-> "none"]
    /\ spc = [c \in StatusCalls |-> "idle"]
    /\ sarg = [c \in StatusCalls |-> 0]
    /\ sloc = [c \in StatusCalls |-> [exited |-> FALSE, exitCode |-> 0, state |-> ""]]
    /\ sret = [c \in StatusCalls |-> [err |-> "none", status |-> EmptyStatus, late |-> FALSE]]
    /\ kpc = [k \in AllStops |-> "idle"]
    /\ karg = [k \in AllStops |-> 0]
    /\ kret = [k \in AllStops |-> "none"]
    /\ returned = {}
    /\ reportedExited = {}
    /\ sbegin = [c \in StatusCalls |->
                   [known |-> FALSE, exited |-> FALSE, code |-> 0, afterStop |-> FALSE]]
    /\ kbegin = [k \in AllStops |-> [child |-> "none"]]
    /\ rx = [h \in Handles |-> IdleRexec]
    /\ req = [q \in Requests |-> IdleRequest]
    /\ config = [Outpath |-> DefaultOutpath]

\* ------------------------------------------------------------------ Start
\* uuid.NewString and createOutFile; an error makes Start return "", err.
StartCreateOutFile(s) ==
    /\ stpc[s] = "idle"
    /\ \A r \in Handles : r < s => stpc[r] # "idle"
    /\ \E ok \in BOOLEAN : stpc' = [stpc EXCEPT ![s] = IF ok THEN "spawn" ELSE "failed"]
    /\ UNCHANGED <<jobs, childVars, rpc, statusVars, stopVars, histVars, sub, auxVars>>

\* A Start that puts the job in the map before it spawns the child.
StartSpawnRegistersFirst(s) ==
    /\ stpc[s] = "spawn"
    /\ jobs' = RegisterJob(jobs, s)
    /\ \E ok \in BOOLEAN :
         /\ stpc' = [stpc EXCEPT ![s] = IF ok THEN "register" ELSE "failed"]
         /\ proc' = [proc EXCEPT ![s] = IF ok THEN "alive" ELSE @]
    /\ UNCHANGED <<wstatus, file, rpc, statusVars, stopVars, histVars, sub, auxVars>>

\* cmd.Start(): the child runs from here on; an error makes Start return "", err.
StartSpawn(s) ==
    /\ stpc[s] = "spawn"
    /\ \E ok \in BOOLEAN :
         /\ stpc' = [stpc EXCEPT ![s] = IF ok THEN "register" ELSE "failed"]
         /\ proc' = [proc EXCEPT ![s] = IF ok THEN "alive" ELSE @]
    /\ UNCHANGED <<jobs, wstatus, file, rpc, statusVars, stopVars, histVars, sub, auxVars>>

\* w.mu.Lock(); w.jobs[uniqueJobId] = job; w.mu.Unlock()
StartRegister(s) ==
    /\ stpc[s] = "register"
    /\ jobs' = RegisterJob(jobs, s)
    /\ stpc' = [stpc EXCEPT ![s] = "go"]
    /\ UNCHANGED <<childVars, rpc, statusVars, stopVars, histVars, sub, auxVars>>

\* go func() {...}() and return job.UUID, nil
StartReturn(s) ==
    /\ stpc[s] = "go"
    /\ rpc' = [rpc EXCEPT ![s] = "wait"]
    /\ stpc' = [stpc EXCEPT ![s] = "done"]
    /\ returned' = returned \cup {s}
    /\ UNCHANGED <<jobs, childVars, statusVars, stopVars, reportedExited, sbegin, kbegin, sub,
                   auxVars>>

\* ------------------------------------------------------------------ child
\* The child (the rexec helper and the command under it) appends to its stdout.
ChildWrite(h) ==
    /\ proc[h] = "alive"
    /\ Len(file[h]) < MaxFile
    /\ file' = [file EXCEPT ![h] = Append(@, Len(@) + 1)]
    /\ sub' = [o \in AllSubs |-> IF Watching(o, h) THEN [sub[o] EXCEPT !.evq = TRUE] ELSE sub[o]]
    /\ UNCHANGED <<jobs, proc, wstatus, startVars, statusVars, stopVars, histVars, auxVars>>

\* The child exits by itself.
ChildExit(h) ==
    /\ proc[h] = "alive"
    /\ \E code \in ExitCodes :
         wstatus' = [wstatus EXCEPT ![h] = [signaled |-> FALSE, code |-> code]]
    /\ proc' = [proc EXCEPT ![h] = "zombie"]
    /\ UNCHANGED <<jobs, file, startVars, statusVars, stopVars, histVars, sub, auxVars>>

\* ------------------------------------------------------------------ rexec
\* The child is `/proc/self/exe rexec name args...`: Rexec first reads
\* /proc/self/stat for its own pid; an error is returned.
RexecParseProcStat(h) ==
    /\ proc[h] = "alive"
    /\ rx[h].pc = "none"
    /\ \E ok \in BOOLEAN :
         rx' = [rx EXCEPT ![h].pc = IF ok THEN "loop" ELSE "returned",
                          ![h].err = IF ok THEN "nil" ELSE "stat"]
    /\ UNCHANGED <<jobs, childVars, startVars, statusVars, stopVars, histVars, sub, req, config>>

\* createCgroup: the next controller of the map, in whatever order range
\* yields them; os.Mkdir of <cgroupPath>/<controller>/<pid>, whose error is
\* returned at once.
RexecMkdir(h) ==
    /\ proc[h] = "alive"
    /\ rx[h].pc = "loop"
    /\ \E c \in rx[h].todo, ok \in BOOLEAN :
         rx' = [rx EXCEPT ![h].todo = @ \ {c},
                          ![h].cur = c,
                          ![h].made = IF ok THEN @ \cup {c} ELSE @,
                          ![h].pc = IF ok THEN "configure" ELSE "returned",
                          ![h].err = IF ok THEN "nil" ELSE "cgroup"]
    /\ UNCHANGED <<jobs, childVars, startVars, statusVars, stopVars, histVars, sub, req, config>>

\* A configureCgroup whose error createCgroup drops.
RexecConfigureIgnoresError(h) ==
    /\ proc[h] = "alive"
    /\ rx[h].pc = "configure"
    /\ \E ok \in BOOLEAN :
         rx' = [rx EXCEPT ![h].joined = IF ok THEN @ \cup {rx[h].cur} ELSE @,
                          ![h].pc = "loop"]
    /\ UNCHANGED <<jobs, childVars, startVars, statusVars, stopVars, histVars, sub, req, config>>

\* configureCgroup: write the parameter files, then "0" to cgroup.procs, which
\* moves the helper into the cgroup; the first error is returned and nothing
\* after it is done.
RexecConfigure(h) ==
    /\ proc[h] = "alive"
    /\ rx[h].pc = "configure"
    /\ \E ok \in BOOLEAN :
         rx' = [rx EXCEPT ![h].joined = IF ok THEN @ \cup {rx[h].cur} ELSE @,
                          ![h].pc = IF ok THEN "loop" ELSE "returned",
                          ![h].err = IF ok THEN "nil" ELSE "cgroup"]
    /\ UNCHANGED <<jobs, childVars, startVars, statusVars, stopVars, histVars, sub, req, config>>

\* The loop of createCgroup is over; cmd.Run starts the user command, or
\* fails to and returns the error.
RexecRun(h) ==
    /\ proc[h] = "alive"
    /\ rx[h].pc = "loop"
    /\ rx[h].todo = {}
    /\ \E ok \in BOOLEAN :
         rx' = [rx EXCEPT ![h].started = ok,
                          ![h].pc = IF ok THEN "wait" ELSE "returned",
                          ![h].err = IF ok THEN "nil" ELSE "run"]
    /\ UNCHANGED <<jobs, childVars, startVars, statusVars, stopVars, histVars, sub, req, config>>

\* cmd.Run returns when the user command has terminated: nil if it exited
\* with code 0, an error otherwise.
RexecCommandExit(h) ==
    /\ proc[h] = "alive"
    /\ rx[h].pc = "wait"
    /\ \E code \in ExitCodes :
         rx' = [rx EXCEPT ![h].pc = "returned",
                          ![h].err = IF code = 0 THEN "nil" ELSE "run"]
    /\ UNCHANGED <<jobs, childVars, startVars, statusVars, stopVars, histVars, sub, req, config>>

\* The rexec command of the binary: log.Fatalf, that is exit status 1, if
\* Rexec returned an error, and exit status 0 otherwise.
RexecExit(h) ==
    /\ proc[h] = "alive"
    /\ rx[h].pc = "returned"
    /\ rx' = [rx EXCEPT ![h].pc = "done"]
    /\ wstatus' = [wstatus EXCEPT ![h] =
                     [signaled |-> FALSE, code |-> IF rx[h].err = "nil" THEN 0 ELSE 1]]
    /\ proc' = [proc EXCEPT ![h] = "zombie"]
    /\ UNCHANGED <<jobs, file, startVars, statusVars, stopVars, histVars, sub, req, config>>

\* ------------------------------------------------------------------ server
\* A client whose certificate the server has verified calls a method of the
\* service.  The server was built with grpc.UnaryInterceptor alone, so a
\* unary call goes to unaryInterceptor and a streaming call straight to its
\* handler.
RequestArrives(q) ==
    /\ req[q].pc = "idle"
    /\ \A p \in Requests : p < q => req[p].pc # "idle"
    /\ \E m \in Methods, cert \in {"norole", "role"}, role \in Roles :
         req' = [req EXCEPT ![q] =
                   [pc |-> IF m \in UnaryMethods THEN "intercept" ELSE "handler",
                    method |-> m,
                    cert |-> cert,
                    role |-> IF cert = "role" THEN role ELSE ""]]
    /\ UNCHANGED <<jobs, childVars, startVars, statusVars, stopVars, histVars, sub, rx, config>>

\* unaryInterceptor: an error if the peer has no certificate or the
\* certificate no Organization, or if isAuthorized(info.FullMethod, role) is
\* false; the handler otherwise.
RequestIntercept(q) ==
    /\ req[q].pc = "intercept"
    /\ req' = [req EXCEPT ![q].pc =
                 IF req[q].cert # "role" THEN "denied"
                 ELSE IF ~isAuthorized(req[q].method, req[q].role) THEN "denied"
                 ELSE "handler"]
    /\ UNCHANGED <<jobs, childVars, startVars, statusVars, stopVars, histVars, sub, rx, config>>

\* ------------------------------------------------------------------ config
\* The owner of the Worker assigns w.Config.Outpath.
SetOutpath(p) ==
    /\ p # config.Outpath
    /\ config' = [config EXCEPT !.Outpath = p]
    /\ UNCHANGED <<jobs, childVars, startVars, statusVars, stopVars, histVars, sub, rx, req>>

\* ------------------------------------------------------------------ reaper
\* cmd.Wait() returns once the child has terminated, and reaps it.
ReaperWait(h) ==
    /\ rpc[h] = "wait"
    /\ proc[h] = "zombie"
    /\ proc' = [proc EXCEPT ![h] = "reaped"]
    /\ rpc' = [rpc EXCEPT ![h] = "finalize"]
    /\ UNCHANGED <<jobs, wstatus, file, stpc, statusVars, stopVars, histVars, sub, auxVars>>

\* A reaper that leaves the critical section after the first of its two writes.
RecordExitCodeOnly(js, h, ws) == SetStatus(js, h, "ExitCode", ExitCodeOf(ws))

\* job.status.ExitCode = ProcessState.ExitCode(); job.status.Exited = ProcessState.Exited()
RecordExit(js, h, ws) ==
    SetStatus(SetStatus(js, h, "ExitCode", ExitCodeOf(ws)), h, "Exited", ExitedOf(ws))

\* w.mu.Lock(); status.ExitCode = ...; status.Exited = ...; w.mu.Unlock()
ReaperFinalize(h) ==
    /\ rpc[h] = "finalize"
    /\ jobs' = RecordExit(jobs, h, wstatus[h])
    /\ rpc' = [rpc EXCEPT ![h] = "cgroups"]
    /\ UNCHANGED <<childVars, stpc, statusVars, stopVars, histVars, sub, auxVars>>

\* A reaper that returns when removeCgroups fails.
ReaperRemoveCgroupsReturnsOnError(h) ==
    /\ rpc[h] = "cgroups"
    /\ \E left \in SUBSET rx[h].made :
         /\ rx' = [rx EXCEPT ![h].made = left]
         /\ rpc' = [rpc EXCEPT ![h] = IF left = {} THEN "close" ELSE "returned"]
    /\ UNCHANGED <<jobs, childVars, stpc, statusVars, stopVars, histVars, sub, req, config>>

\* removeCgroups(pid): os.RemoveAll of the job's directory under every
\* controller, each of which may fail and leave the directory; the error is
\* logged and the reaper goes on.
ReaperRemoveCgroups(h) ==
    /\ rpc[h] = "cgroups"
    /\ \E left \in SUBSET rx[h].made :
         rx' = [rx EXCEPT ![h].made = left]
    /\ rpc' = [rpc EXCEPT ![h] = "close"]
    /\ UNCHANGED <<jobs, childVars, stpc, statusVars, stopVars, histVars, sub, req, config>>

\* A reaper that ends with delete(w.jobs, uuid).
ReaperCloseRemovesJob(h) ==
    /\ rpc[h] = "close"
    /\ rpc' = [rpc EXCEPT ![h] = "done"]
    /\ jobs' = [u \in DOMAIN jobs \ {h} |-> jobs[u]]
    /\ UNCHANGED <<childVars, stpc, statusVars, stopVars, histVars, sub, auxVars>>

\* outfile.Close()
ReaperClose(h) ==
    /\ rpc[h] = "close"
    /\ rpc' = [rpc EXCEPT ![h] = "done"]
    /\ UNCHANGED <<jobs, childVars, stpc, statusVars, stopVars, histVars, sub, auxVars>>

\* ------------------------------------------------------------------ Status
\* A caller invokes Status(u).
StatusCall(c, u) ==
    /\ spc[c] = "idle"
    /\ \A d \in StatusCalls : d < c => spc[d] # "idle"
    /\ spc' = [spc EXCEPT ![c] = "lookup"]
    /\ sarg' = [sarg EXCEPT ![c] = u]
    /\ sbegin' = [sbegin EXCEPT ![c] =
          [known |-> u \in returned,
           exited |-> u \in DOMAIN jobs /\ jobs[u].status.Exited,
           code |-> IF u \in DOMAIN jobs THEN jobs[u].status.ExitCode ELSE 0,
           afterStop |-> /\ u \in DOMAIN jobs
                         /\ jobs[u].status.Terminated
                         /\ Finalized(u)]]
    /\ UNCHANGED <<jobs, childVars, startVars, sloc, sret, stopVars, returned, reportedExited,
                   kbegin, sub, auxVars>>

\* job, err := w.getJobByUUID(uuid); if err != nil { return Status{}, err }
StatusLookup(c) ==
    /\ spc[c] = "lookup"
    /\ IF getJobByUUID(sarg[c])
         THEN /\ spc' = [spc EXCEPT ![c] = "read"]
              /\ sret' = sret
         ELSE /\ spc' = [spc EXCEPT ![c] = "done"]
              /\ sret' = [sret EXCEPT ![c] =
                    [err |-> "NotFound", status |-> EmptyStatus, late |-> FALSE]]
    /\ UNCHANGED <<jobs, childVars, startVars, sarg, sloc, stopVars, histVars, sub, auxVars>>

\* A Status that goes to /proc whenever exited is false, whatever the exit code.
StatusReadIgnoresExitCode(c) ==
    /\ spc[c] = "read"
    /\ LET st == jobs[sarg[c]].status
           live == ~st.Exited
       IN /\ sloc' = [sloc EXCEPT ![c] =
                [exited |-> st.Exited, exitCode |-> st.ExitCode,
                 state |-> IF live THEN "" ELSE "EXITED"]]
          /\ spc' = [spc EXCEPT ![c] = IF live THEN "proc" ELSE "write"]
    /\ UNCHANGED <<jobs, childVars, startVars, sarg, sret, stopVars, histVars, sub, auxVars>>

\* w.mu.RLock(); exited, exitCode := ...; w.mu.RUnlock(), and the test on them.
StatusRead(c) ==
    /\ spc[c] = "read"
    /\ LET st == jobs[sarg[c]].status
           live == ~st.Exited /\ st.ExitCode = 0
       IN /\ sloc' = [sloc EXCEPT ![c] =
                [exited |-> st.Exited, exitCode |-> st.ExitCode,
                 state |-> IF live THEN "" ELSE "EXITED"]]
          /\ spc' = [spc EXCEPT ![c] = IF live THEN "proc" ELSE "write"]
    /\ UNCHANGED <<jobs, childVars, startVars, sarg, sret, stopVars, histVars, sub, auxVars>>

\* A Status that clears the stored state when the read of /proc fails.
StatusProcClearsState(c) ==
    /\ spc[c] = "proc"
    /\ LET p == jobs[sarg[c]].pid IN
         \/ /\ proc[p] = "alive"
            /\ \E letter \in LiveLetters :
                 sloc' = [sloc EXCEPT ![c].state = MapState(letter)]
            /\ spc' = [spc EXCEPT ![c] = "write"]
            /\ sret' = sret
            /\ jobs' = jobs
         \/ /\ proc[p] = "zombie"
            /\ sloc' = [sloc EXCEPT ![c].state = MapState("Z")]
            /\ spc' = [spc EXCEPT ![c] = "write"]
            /\ sret' = sret
            /\ jobs' = jobs
         \/ /\ proc[p] = "reaped"
            /\ sloc' = sloc
            /\ spc' = [spc EXCEPT ![c] = "done"]
            /\ sret' = [sret EXCEPT ![c] =
                  [err |-> "ProcRead", status |-> EmptyStatus, late |-> FALSE]]
            /\ jobs' = SetStatus(jobs, sarg[c], "State", "")
    /\ UNCHANGED <<childVars, startVars, sarg, stopVars, histVars, sub, auxVars>>

\* parseProcStat(strconv.Itoa(job.pid)) and the switch on the state letter.
\* A terminated child that Wait has not reaped shows Z; once reaped its
\* /proc entry is gone and the read fails (the pid is taken not to be reused).
StatusProc(c) ==
    /\ spc[c] = "proc"
    /\ LET p == jobs[sarg[c]].pid IN
         \/ /\ proc[p] = "alive"
            /\ \E letter \in LiveLetters :
                 sloc' = [sloc EXCEPT ![c].state = MapState(letter)]
            /\ spc' = [spc EXCEPT ![c] = "write"]
            /\ sret' = sret
         \/ /\ proc[p] = "zombie"
            /\ sloc' = [sloc EXCEPT ![c].state = MapState("Z")]
            /\ spc' = [spc EXCEPT ![c] = "write"]
            /\ sret' = sret
         \/ /\ proc[p] = "reaped"
            /\ sloc' = sloc
            /\ spc' = [spc EXCEPT ![c] = "done"]
            /\ sret' = [sret EXCEPT ![c] =
                  [err |-> "ProcRead", status |-> EmptyStatus, late |-> FALSE]]
    /\ UNCHANGED <<jobs, childVars, startVars, sarg, stopVars, histVars, sub, auxVars>>

\* A Status whose Lock has to wait for a tailer that keeps the read lock
\* while it offers a chunk to its subscriber.
StatusWriteBehindSend(c) ==
    /\ spc[c] = "write"
    /\ \A o \in AllSubs : sub[o].pc \notin {"emit0", "emit"}
    /\ jobs' = SetStatus(jobs, sarg[c], "State", sloc[c].state)
    /\ spc' = [spc EXCEPT ![c] = "copy"]
    /\ UNCHANGED <<childVars, startVars, sarg, sloc, sret, stopVars, histVars, sub, auxVars>>

\* w.mu.Lock(); job.status.State = processStat.State; w.mu.Unlock()
StatusWrite(c) ==
    /\ spc[c] = "write"
    /\ jobs' = SetStatus(jobs, sarg[c], "State", sloc[c].state)
    /\ spc' = [spc EXCEPT ![c] = "copy"]
    /\ UNCHANGED <<childVars, startVars, sarg, sloc, sret, stopVars, histVars, sub, auxVars>>

\* return *job.status, nil: the copy is made after the lock was released, so
\* it shows whatever the reaper, Stop and other Status calls have written by
\* the instant it is taken.
StatusReturn(c) ==
    /\ spc[c] = "copy"
    /\ LET st == jobs[sarg[c]].status IN
         /\ sret' = [sret EXCEPT ![c] =
               [err |-> "nil", status |-> st, late |-> sarg[c] \in reportedExited]]
         /\ reportedExited' =
               IF st.State = "EXITED" THEN reportedExited \cup {sarg[c]} ELSE reportedExited
    /\ spc' = [spc EXCEPT ![c] = "done"]
    /\ UNCHANGED <<jobs, childVars, startVars, sarg, sloc, stopVars, returned, sbegin, kbegin, sub,
                   auxVars>>

\* ------------------------------------------------------------------ Stop
\* A caller invokes Stop(u).
StopCall(k, u) ==
    /\ kpc[k] = "idle"
    /\ \A d \in AllStops : d < k => kpc[d] # "idle"
    /\ kpc' = [kpc EXCEPT ![k] = "lookup"]
    /\ karg' = [karg EXCEPT ![k] = u]
    /\ UNCHANGED <<jobs, childVars, startVars, statusVars, kret, histVars, sub, auxVars>>

\* The same, the state of the child at that moment being noted.
StopCallNoted(k, u) ==
    /\ kpc[k] = "idle"
    /\ \A d \in AllStops : d < k => kpc[d] # "idle"
    /\ kpc' = [kpc EXCEPT ![k] = "lookup"]
    /\ karg' = [karg EXCEPT ![k] = u]
    /\ kbegin' = [kbegin EXCEPT ![k] =
          [child |-> IF u \in DOMAIN jobs THEN proc[jobs[u].pid] ELSE "none"]]
    /\ UNCHANGED <<jobs, childVars, startVars, statusVars, kret, returned, reportedExited,
                   sbegin, sub, auxVars>>

\* job, err := w.getJobByUUID(uuid); if err != nil { return fmt.Errorf(...) }
StopLookup(k) ==
    /\ kpc[k] = "lookup"
    /\ IF getJobByUUID(karg[k])
         THEN /\ kpc' = [kpc EXCEPT ![k] = "signal"]
              /\ kret' = kret
         ELSE /\ kpc' = [kpc EXCEPT ![k] = "done"]
              /\ kret' = [kret EXCEPT ![k] = "NotFound"]
    /\ UNCHANGED <<jobs, childVars, startVars, statusVars, karg, histVars, sub, auxVars>>

\* A Stop that does not look at the error of Signal.
StopSignalIgnoresError(k) ==
    /\ kpc[k] = "signal"
    /\ LET p == jobs[karg[k]].pid IN
         IF proc[p] = "alive"
           THEN /\ proc' = [proc EXCEPT ![p] = "zombie"]
                /\ wstatus' = [wstatus EXCEPT ![p] = [signaled |-> TRUE, code |-> 0]]
           ELSE UNCHANGED <<proc, wstatus>>
    /\ kpc' = [kpc EXCEPT ![k] = "write"]
    /\ UNCHANGED <<jobs, file, startVars, statusVars, karg, kret, histVars, sub, auxVars>>

\* job.cmd.Process.Signal(syscall.SIGKILL): fails once Wait has reaped the child.
StopSignal(k) ==
    /\ kpc[k] = "signal"
    /\ LET p == jobs[karg[k]].pid IN
         \/ /\ proc[p] = "alive"
            /\ proc' = [proc EXCEPT ![p] = "zombie"]
            /\ wstatus' = [wstatus EXCEPT ![p] = [signaled |-> TRUE, code |-> 0]]
            /\ kpc' = [kpc EXCEPT ![k] = "write"]
            /\ kret' = kret
         \/ /\ proc[p] = "zombie"
            /\ UNCHANGED <<proc, wstatus, kret>>
            /\ kpc' = [kpc EXCEPT ![k] = "write"]
         \/ /\ proc[p] = "reaped"
            /\ UNCHANGED <<proc, wstatus>>
            /\ kpc' = [kpc EXCEPT ![k] = "done"]
            /\ kret' = [kret EXCEPT ![k] = "SignalFailed"]
    /\ UNCHANGED <<jobs, file, startVars, statusVars, karg, histVars, sub, auxVars>>

\* A Stop that returns nil after the signal without writing the flag.
StopWriteSkipped(k) ==
    /\ kpc[k] = "write"
    /\ kpc' = [kpc EXCEPT ![k] = "done"]
    /\ kret' = [kret EXCEPT ![k] = "nil"]
    /\ UNCHANGED <<jobs, childVars, startVars, statusVars, karg, histVars, sub, auxVars>>

\* w.mu.Lock(); job.status.Terminated = true; w.mu.Unlock(); return nil
StopWrite(k) ==
    /\ kpc[k] = "write"
    /\ jobs' = SetStatus(jobs, karg[k], "Terminated", TRUE)
    /\ kpc' = [kpc EXCEPT ![k] = "done"]
    /\ kret' = [kret EXCEPT ![k] = "nil"]
    /\ UNCHANGED <<childVars, startVars, statusVars, karg, histVars, sub, auxVars>>

\* ------------------------------------------------------------------ Output
lifeVars == <<jobs, childVars, startVars, statusVars, stopVars, histVars, auxVars>>

\* One open file shared by the subscriptions of a job.
OpenOffsetShared(o) ==
    IF \E q \in AllSubs : q # o /\ sub[q].fopen
      THEN sub[CHOOSE q \in AllSubs : q # o /\ sub[q].fopen].pos
      ELSE 0

\* os.Open gives a fresh open file description: its offset is 0 whatever the
\* other readers of the file have read.
OpenOffset(o) == 0

\* Reading with ReadAt at an offset that is never advanced.
NextOffsetStuck(p, n) == p

\* The offset of f after file.Read returned n bytes.
NextOffset(p, n) == p + n

\* A tailer whose deferred function runs while the goroutine goes on.
TailerExitGoesOn(s) == [s EXCEPT !.fopen = FALSE, !.dclosed = TRUE]

\* The deferred function of the tailer goroutine: f.Close(); close(dataStream).
TailerExit(s) ==
    [s EXCEPT !.pc = "closed", !.fopen = FALSE, !.dclosed = TRUE, !.chunk = <<>>]

\* The deferred function of the watcher goroutine: InotifyRmWatch, unix.Close(fd),
\* close(eventStream).
WatcherExit(s) == [s EXCEPT !.wpc = "closed", !.evq = FALSE]

\* A plain send dataStream <- chunk[:n], outside a select.
EmitIgnoresCancel(s) == FALSE

\* The select of readChunk has a case <-ctx.Done().
EmitHonoursCancel(s) == s.cancelled

\* The select of waitForModifyEvent has a case <-ctx.Done().
AwaitHonoursCancel(s) == s.cancelled

\* isExited := job.status.Exited, read under w.mu.RLock().
IsExited(h) == jobs[h].status.Exited

\* Output up to its return: getJobByUUID, os.Open, make(chan []byte), go func.
\* os.Open can succeed when the path is that of the job's capture file; the
\* output directories are taken to hold nothing but capture files.
Output(o, u) ==
    /\ sub[o].pc = "idle"
    /\ \A p \in AllSubs : p < o => sub[p].pc # "idle"
    /\ IF getJobByUUID(u)
         THEN \E ok \in IF outFilePath(config, u) = createOutFilePath(u)
                          THEN BOOLEAN ELSE {FALSE} :
                sub' = [sub EXCEPT ![o] =
                   IF ok
                     THEN [@ EXCEPT !.uuid = u, !.ret = "stream", !.fopen = TRUE,
                                    !.pos = OpenOffset(o), !.pc = "watch",
                                    !.exitedAtStart = jobs[u].status.Exited]
                     ELSE [@ EXCEPT !.uuid = u, !.ret = "OpenFailed", !.pc = "failed"]]
         ELSE sub' = [sub EXCEPT ![o] =
                   [@ EXCEPT !.uuid = u, !.ret = "NotFound", !.pc = "failed"]]
    /\ UNCHANGED lifeVars

\* eventStream, err := watch(ctx, outFilePath): on success the watcher goroutine
\* runs; on an error the tailer logs it and returns.
TailerWatch(o) ==
    /\ sub[o].pc = "watch"
    /\ \E ok \in BOOLEAN :
         sub' = [sub EXCEPT ![o] =
            IF ok THEN [@ EXCEPT !.pc = "drain0", !.wpc = "read"] ELSE TailerExit(@)]
    /\ UNCHANGED lifeVars

\* readChunk: n, err := file.Read(chunk).  "drain0" is the call before the
\* loop, "drain" the call inside it; io.EOF leads to the exited check after
\* the first and back to waitForModifyEvent after the second.  os.File.Read
\* returns n > 0 with a nil error or n = 0 with io.EOF, so the send under
\* "if n > 0" in the error branch is never executed.
TailerRead(o) ==
    /\ sub[o].pc \in {"drain0", "drain"}
    /\ LET s == sub[o]
           n == ReadCount(file[s.uuid], s.pos)
           buf == ReadBuf(file[s.uuid], s.pos)
       IN sub' = [sub EXCEPT ![o] =
            IF n > 0
              THEN [s EXCEPT !.chunk = ChunkSlice(buf, n), !.pos = NextOffset(s.pos, n),
                             !.pc = IF s.pc = "drain0" THEN "emit0" ELSE "emit"]
              ELSE [s EXCEPT !.pc = IF s.pc = "drain0" THEN "eofcheck" ELSE "await"]]
    /\ UNCHANGED lifeVars

\* readChunk: case dataStream <- chunk[:n], taken when the consumer receives.
TailerSend(o) ==
    /\ sub[o].pc \in {"emit0", "emit"}
    /\ sub' = [sub EXCEPT ![o] =
          [@ EXCEPT !.received = @ \o sub[o].chunk, !.chunk = <<>>,
                    !.pc = IF sub[o].pc = "emit0" THEN "drain0" ELSE "drain"]]
    /\ UNCHANGED lifeVars

\* readChunk: case <-ctx.Done(): return ctx.Err(); the tailer logs and returns.
TailerSendCancel(o) ==
    /\ sub[o].pc \in {"emit0", "emit"}
    /\ EmitHonoursCancel(sub[o])
    /\ sub' = [sub EXCEPT ![o] = TailerExit(@)]
    /\ UNCHANGED lifeVars

\* After io.EOF from the first readChunk: return if the job has exited.
TailerEofCheck(o) ==
    /\ sub[o].pc = "eofcheck"
    /\ sub' = [sub EXCEPT ![o] =
          IF IsExited(sub[o].uuid) THEN TailerExit(@) ELSE [@ EXCEPT !.pc = "await"]]
    /\ UNCHANGED lifeVars

\* waitForModifyEvent: case event := <-eventStream, the watcher sending.
TailerEvent(o) ==
    /\ sub[o].pc = "await"
    /\ sub[o].wpc = "send"
    /\ sub' = [sub EXCEPT ![o] = [@ EXCEPT !.pc = "drain", !.wpc = "read"]]
    /\ UNCHANGED lifeVars

\* waitForModifyEvent: case <-ctx.Done(): return ctx.Err(); the tailer returns.
\* (Once the watcher has closed eventStream the other case yields zero values
\* and the loop spins without changing anything until this case is chosen.)
TailerAwaitCancel(o) ==
    /\ sub[o].pc = "await"
    /\ AwaitHonoursCancel(sub[o])
    /\ sub' = [sub EXCEPT ![o] = TailerExit(@)]
    /\ UNCHANGED lifeVars

\* The subscriber cancels ctx (or its deadline passes).
Cancel(o) ==
    /\ sub[o].ret = "stream"
    /\ ~sub[o].cancelled
    /\ sub' = [sub EXCEPT ![o].cancelled = TRUE]
    /\ UNCHANGED lifeVars

\* watch: unix.Read(fd, buf) returns the queued IN_MODIFY event.
WatcherRead(o) ==
    /\ sub[o].wpc = "read"
    /\ sub[o].evq
    /\ sub' = [sub EXCEPT ![o] = [@ EXCEPT !.wpc = "send", !.evq = FALSE]]
    /\ UNCHANGED lifeVars

\* watch: unix.Read fails; the watcher logs and returns.
WatcherReadFail(o) ==
    /\ sub[o].wpc = "read"
    /\ sub' = [sub EXCEPT ![o] = WatcherExit(@)]
    /\ UNCHANGED lifeVars

\* watch: case <-ctx.Done() of the select that sends the event.
WatcherCancel(o) ==
    /\ sub[o].wpc = "send"
    /\ sub[o].cancelled
    /\ sub' = [sub EXCEPT ![o] = WatcherExit(@)]
    /\ UNCHANGED lifeVars

\* What each step that touches the fields of a job's Status holds of w.mu
\* while it does: Status reads exited and exit code between RLock and
\* RUnlock, writes State between Lock and Unlock and copies *job.status after
\* the Unlock; the reaper and Stop write between Lock and Unlock; the tailer
\* reads Exited between RLock and RUnlock.
LockHeld(step) ==
    CASE step = "StatusRead" -> "shared"
      [] step = "StatusWrite" -> "exclusive"
      [] step = "StatusReturn" -> "none"
      [] step = "ReaperFinalize" -> "exclusive"
      [] step = "StopWrite" -> "exclusive"
      [] step = "TailerEofCheck" -> "shared"

\* ------------------------------------------------------------------ Spec
StartSteps(s) ==
    \/ StartCreateOutFile(s)
    \/ StartSpawn(s)
    \/ StartRegister(s)
    \/ StartReturn(s)

ReaperSteps(h) ==
    \/ ReaperWait(h)
    \/ ReaperFinalize(h)
    \/ ReaperRemoveCgroups(h)
    \/ ReaperClose(h)

RexecSteps(h) ==
    \/ RexecParseProcStat(h)
    \/ RexecMkdir(h)
    \/ RexecConfigure(h)
    \/ RexecRun(h)
    \/ RexecCommandExit(h)
    \/ RexecExit(h)

StatusSteps(c) ==
    \/ StatusLookup(c)
    \/ StatusRead(c)
    \/ StatusProc(c)
    \/ StatusWrite(c)
    \/ StatusReturn(c)

StopSteps(k) ==
    \/ StopLookup(k)
    \/ StopSignal(k)
    \/ StopWrite(k)

\* The steps of the tailer goroutine that need no other party.
TailerStep(o) ==
    \/ TailerWatch(o)
    \/ TailerRead(o)
    \/ TailerSendCancel(o)
    \/ TailerEofCheck(o)
    \/ TailerAwaitCancel(o)

WatcherSteps(o) ==
    \/ WatcherRead(o)
    \/ WatcherReadFail(o)
    \/ WatcherCancel(o)

\* All the steps of the subscriptions in S on job 1 or on the unknown uuid.
OutputSteps(S) ==
    \/ \E o \in S, u \in FirstJob \cup {0} : Output(o, u)
    \/ \E o \in S : TailerStep(o)
    \/ \E o \in S : TailerSend(o)
    \/ \E o \in S : TailerEvent(o)
    \/ \E o \in S : Cancel(o)
    \/ \E o \in S : WatcherSteps(o)

\* Job 1 from Start to the end of its reaper, writing its capture file or not.
JobSteps ==
    \/ \E s \in FirstJob : StartSteps(s)
    \/ \E h \in FirstJob : ChildExit(h)
    \/ \E h \in FirstJob : ReaperSteps(h)

\* No Status or Stop call of the client is in progress.
ClientIdle ==
    /\ \A c \in StatusCalls : spc[c] \in {"idle", "done"}
    /\ \A k \in AllStops : kpc[k] \in {"idle", "done"}

\* One job, concurrent Status calls and a Stop call on it or on an unknown uuid.
Next ==
    \/ JobSteps
    \/ \E c \in StatusCalls, u \in FirstJob \cup {0} : StatusCall(c, u)
    \/ \E c \in StatusCalls : StatusSteps(c)
    \/ \E k \in StopCalls, u \in FirstJob \cup {0} : StopCall(k, u)
    \/ \E k \in StopCalls : StopSteps(k)

Spec == Init /\ [][Next]_vars

\* Concurrent Start calls with their children and reapers, and a Status call
\* on any uuid.
NextStart ==
    \/ \E s \in Handles : StartSteps(s)
    \/ \E h \in Handles : ChildExit(h)
    \/ \E h \in Handles : ReaperSteps(h)
    \/ \E c \in FirstCall, u \in UUIDs : StatusCall(c, u)
    \/ \E c \in FirstCall : StatusSteps(c)

SpecStart == Init /\ [][NextStart]_vars

\* One job writing its capture file, and the subscriptions of Subs on it.
NextTail ==
    \/ JobSteps
    \/ \E h \in FirstJob : ChildWrite(h)
    \/ OutputSteps(Subs)

SpecTail == Init /\ [][NextTail]_vars

\* The same with one subscription more.
NextOut ==
    \/ JobSteps
    \/ \E h \in FirstJob : ChildWrite(h)
    \/ OutputSteps(AllSubs)

SpecOut == Init /\ [][NextOut]_vars

\* One job, one Output subscription, and a client that calls Status and
\* Stop one call at a time.
NextAll ==
    \/ JobSteps
    \/ \E h \in FirstJob : ChildWrite(h)
    \/ \E c \in FirstCall, u \in FirstJob \cup {0} : ClientIdle /\ StatusCall(c, u)
    \/ \E c \in FirstCall : StatusSteps(c)
    \/ \E k \in FirstCall, u \in FirstJob \cup {0} : ClientIdle /\ StopCall(k, u)
    \/ \E k \in FirstCall : StopSteps(k)
    \/ OutputSteps(FirstCall)

SpecAll == Init /\ [][NextAll]_vars

\* One job and one Output subscription, the tailer goroutine being scheduled:
\* a step of it that stays possible is eventually taken.  Nothing obliges the
\* consumer to receive, the subscriber to cancel, the watcher to deliver an
\* event or the child to write or exit.
NextLive ==
    \/ JobSteps
    \/ \E h \in FirstJob : ChildWrite(h)
    \/ OutputSteps(FirstCall)

SpecLive ==
    /\ Init
    /\ [][NextLive]_vars
    /\ \A o \in FirstCall : WF_vars(TailerStep(o))

\* One job with its reaper running in the background, and a client that
\* calls Status and Stop on the handle Start returned to it, one call at a
\* time, Stop up to twice in a row.
NextStop ==
    \/ JobSteps
    \/ \E c \in StatusCalls, u \in returned : ClientIdle /\ StatusCall(c, u)
    \/ \E c \in StatusCalls : StatusSteps(c)
    \/ \E k \in AllStops, u \in returned : ClientIdle /\ StopCallNoted(k, u)
    \/ \E k \in AllStops : StopSteps(k)

SpecStop == Init /\ [][NextStop]_vars

\* A Start call, the rexec helper inside its child from its first statement
\* to its exit, and the reaper.
NextRexec ==
    \/ \E s \in FirstJob : StartSteps(s)
    \/ \E h \in FirstJob : RexecSteps(h)
    \/ \E h \in FirstJob : ReaperSteps(h)

SpecRexec == Init /\ [][NextRexec]_vars

\* One job with its reaper, and a Stop call and a Status call on the handle
\* Start returned, running concurrently.
NextRace ==
    \/ JobSteps
    \/ \E c \in FirstCall, u \in returned : StatusCall(c, u)
    \/ \E c \in FirstCall : StatusSteps(c)
    \/ \E k \in FirstCall, u \in returned : StopCall(k, u)
    \/ \E k \in FirstCall : StopSteps(k)

SpecRace == Init /\ [][NextRace]_vars

\* One job, a Status call, a Stop call and an Output subscription whose
\* subscriber neither receives nor cancels, all concurrent.  Every goroutine that runs
\* Start, Status, Stop or the reaper is scheduled; the tailer, the watcher,
\* the child and the subscriber are owed nothing.  The child writes once.
StartRun(s) == StartSpawn(s) \/ StartRegister(s) \/ StartReturn(s)

NextBlock ==
    \/ JobSteps
    \/ \E h \in FirstJob : file[h] = <<>> /\ ChildWrite(h)
    \/ \E c \in FirstCall, u \in returned : StatusCall(c, u)
    \/ \E c \in FirstCall : StatusSteps(c)
    \/ \E k \in FirstCall, u \in returned : StopCall(k, u)
    \/ \E k \in FirstCall : StopSteps(k)
    \/ \E o \in FirstCall, u \in returned : Output(o, u)
    \/ \E o \in FirstCall : TailerWatch(o)
    \/ \E o \in FirstCall : TailerRead(o)
    \/ \E o \in FirstCall : TailerEofCheck(o)
    \/ \E o \in FirstCall : TailerEvent(o)
    \/ \E o \in FirstCall : WatcherRead(o)
    \/ \E o \in FirstCall : WatcherReadFail(o)

SpecBlock ==
    /\ Init
    /\ [][NextBlock]_vars
    /\ \A s \in FirstJob : WF_vars(StartRun(s))
    /\ \A h \in FirstJob : WF_vars(ReaperSteps(h))
    /\ \A c \in FirstCall : WF_vars(StatusSteps(c))
    /\ \A k \in FirstCall : WF_vars(StopSteps(k))

\* Concurrent jobs with their reapers, a client that calls Start and then,
\* one call at a time, Status, Stop and Output on the first handle it was
\* given while the other jobs run beside it; the children write nothing.
NextFrame ==
    \/ \E s \in Handles :
         /\ ClientIdle
         /\ \A r \in Handles : r < s => stpc[r] \in {"done", "failed"}
         /\ StartSteps(s)
    \/ \E h \in Handles : ChildExit(h)
    \/ \E h \in Handles : ReaperSteps(h)
    \/ \E c \in FirstCall, u \in returned \cap FirstJob : ClientIdle /\ StatusCall(c, u)
    \/ \E c \in FirstCall : StatusSteps(c)
    \/ \E k \in FirstCall, u \in returned \cap FirstJob : ClientIdle /\ StopCall(k, u)
    \/ \E k \in FirstCall : StopSteps(k)
    \/ \E o \in FirstCall, u \in returned \cap FirstJob : ClientIdle /\ Output(o, u)
    \/ \E o \in FirstCall : TailerWatch(o)
    \/ \E o \in FirstCall : TailerRead(o)
    \/ \E o \in FirstCall : TailerEofCheck(o)

SpecFrame == Init /\ [][NextFrame]_vars

\* One job writing its capture file and one Output subscription on it, in a
\* Worker whose output path its owner sets.
NextPath ==
    \/ \E p \in Outpaths : SetOutpath(p)
    \/ JobSteps
    \/ \E h \in FirstJob : ChildWrite(h)
    \/ OutputSteps(FirstCall)

SpecPath == Init /\ [][NextPath]_vars

\* The requests that reach the gRPC server.
NextAuthz ==
    \/ \E q \in Requests : RequestArrives(q)
    \/ \E q \in Requests : RequestIntercept(q)

SpecAuthz == Init /\ [][NextAuthz]_vars

\* The same, every goroutine of the subscription being scheduled: the watcher
\* returns from unix.Read when an event is queued and takes the ctx.Done()
\* case of its select when ctx is done, and the rendezvous on eventStream
\* happens when both sides are at it.  The failure of unix.Read is not owed.
WatcherStep(o) == WatcherRead(o) \/ WatcherCancel(o)

SpecWatch ==
    /\ Init
    /\ [][NextLive]_vars
    /\ \A o \in FirstCall : WF_vars(TailerStep(o))
    /\ \A o \in FirstCall : WF_vars(WatcherStep(o))
    /\ \A o \in FirstCall : WF_vars(TailerEvent(o))

\* One job and one subscription whose subscriber keeps receiving: besides
\* the goroutines of the subscription, the receive on dataStream happens
\* whenever the tailer offers a chunk.
SpecFeed ==
    /\ Init
    /\ [][NextLive]_vars
    /\ \A o \in FirstCall : WF_vars(TailerStep(o))
    /\ \A o \in FirstCall : WF_vars(WatcherStep(o))
    /\ \A o \in FirstCall : WF_vars(TailerEvent(o))
    /\ \A o \in FirstCall : WF_vars(TailerSend(o))

\* ------------------------------------------------------------------ claims
IsPrefix(a, b) == Len(a) <= Len(b) /\ a = SubSeq(b, 1, Len(a))

\* C1: a Status call that begins after Start has returned its uuid finds the
\* job in the registry: once past its lookup it has not failed with NotFound.
C1_StatusFindsReturnedHandle ==
    \A c \in StatusCalls :
        (sbegin[c].known /\ spc[c] \notin {"idle", "lookup"}) => sret[c].err # "NotFound"

\* A Status call on a uuid that Start had returned has completed without error
\* while another Start call was still in progress.
C1_Witness ==
    \E c \in StatusCalls :
        /\ sbegin[c].known
        /\ spc[c] = "done"
        /\ sret[c].err = "nil"
        /\ \E s \in Handles : stpc[s] \in {"spawn", "register", "go"}

\* C2: for a uuid that is not in the registry, the lookup step of Status ends
\* the call with NotFound and Status{}, that of Stop ends it with NotFound, and
\* Output returns NotFound with no stream, no open file and no goroutine; none
\* of them changes the registry, a job's status, a reaper or a subscription
\* other than the failed call itself.
C2_UnknownHandleNotFound ==
    [][ /\ \A c \in StatusCalls :
             (spc[c] = "lookup" /\ spc'[c] # "lookup" /\ sarg[c] \notin DOMAIN jobs)
                => /\ spc'[c] = "done"
                   /\ sret'[c].err = "NotFound"
                   /\ sret'[c].status = EmptyStatus
                   /\ UNCHANGED <<jobs, rpc, sub>>
        /\ \A k \in StopCalls :
             (kpc[k] = "lookup" /\ kpc'[k] # "lookup" /\ karg[k] \notin DOMAIN jobs)
                => /\ kpc'[k] = "done"
                   /\ kret'[k] = "NotFound"
                   /\ UNCHANGED <<jobs, rpc, sub, proc, wstatus>>
        /\ \A o \in AllSubs :
             (sub[o].pc = "idle" /\ sub'[o].pc # "idle" /\ sub'[o].uuid \notin DOMAIN jobs)
                => /\ sub'[o] = [IdleSub EXCEPT !.uuid = sub'[o].uuid, !.ret = "NotFound",
                                                !.pc = "failed"]
                   /\ \A q \in AllSubs \ {o} : sub'[q] = sub[q]
                   /\ UNCHANGED <<jobs, rpc>>
        /\ \A o \in AllSubs :
             sub[o].ret = "NotFound" => sub'[o] = sub[o]
      ]_vars

\* Status, Stop and Output have each returned NotFound for the unknown uuid 0
\* while job 1 is registered.
C2_Witness ==
    /\ 1 \in DOMAIN jobs
    /\ \E c \in StatusCalls : spc[c] = "done" /\ sarg[c] = 0 /\ sret[c].err = "NotFound"
    /\ \E k \in StopCalls : kpc[k] = "done" /\ karg[k] = 0 /\ kret[k] = "NotFound"
    /\ \E o \in AllSubs : sub[o].pc = "failed" /\ sub[o].uuid = 0 /\ sub[o].ret = "NotFound"

\* C3: a Status call that returns after some Status call on the same uuid has
\* returned EXITED does not report RUNNING, STOPPED or ZOMBIE.
C3_NoLiveStateAfterExited ==
    \A c \in StatusCalls :
        (spc[c] = "done" /\ sret[c].err = "nil" /\ sret[c].late)
            => sret[c].status.State \notin LiveStates

\* C4: a Status call that begins after the reaper has set exited returns
\* EXITED and the exit code the reaper recorded.
C4_StatusAfterExitedSeesExited ==
    \A c \in StatusCalls :
        (spc[c] = "done" /\ sbegin[c].exited)
            => /\ sret[c].err = "nil"
               /\ sret[c].status.State = "EXITED"
               /\ sret[c].status.ExitCode = sbegin[c].code

\* C5: a tailer whose read in the steady loop hits end of file while the
\* job's exited flag is set terminates (closes its stream) in that step.
C5_TailerClosesAtEofAfterExit ==
    [][ \A o \in AllSubs :
          ( /\ sub[o].pc = "drain"
            /\ sub'[o].pc # "drain"
            /\ ReadCount(file[sub[o].uuid], sub[o].pos) = 0
            /\ IsExited(sub[o].uuid) )
          => sub'[o].pc = "closed" /\ sub'[o].dclosed
      ]_vars

\* C6: when a subscription has terminated, what its consumer received is a
\* prefix of the capture file.
C6_ReceivedIsPrefixAtTermination ==
    \A o \in AllSubs :
        sub[o].pc = "closed" => IsPrefix(sub[o].received, file[sub[o].uuid])

\* A subscription has terminated having received a short chunk and less than
\* the whole file.
C6_Witness ==
    \E o \in AllSubs :
        /\ sub[o].pc = "closed"
        /\ Len(sub[o].received) % ChunkSize # 0
        /\ Len(sub[o].received) < Len(file[sub[o].uuid])

\* C7: a subscription that began with the job's exited flag set and was not
\* cancelled has, once its stream is closed, delivered the whole capture file.
C7_ExitedJobDeliversWholeFile ==
    \A o \in AllSubs :
        (sub[o].exitedAtStart /\ sub[o].pc = "closed" /\ ~sub[o].cancelled)
            => sub[o].received = file[sub[o].uuid]

\* C8: the bytes a subscriber has received, followed by the chunk in flight,
\* are exactly the bytes of the file up to the read offset, and the i-th byte
\* received is the i-th byte appended: none twice, none skipped, none out of order.
C8_StrictAppendOrder ==
    \A o \in AllSubs :
        /\ sub[o].fopen =>
              sub[o].received \o sub[o].chunk = SubSeq(file[sub[o].uuid], 1, sub[o].pos)
        /\ \A i \in 1..Len(sub[o].received) : sub[o].received[i] = i

\* A subscriber is being sent a chunk read after a modify event, having
\* already received the chunks of the initial drain.
C8_Witness ==
    \E o \in AllSubs :
        /\ sub[o].pc = "emit"
        /\ Len(sub[o].received) >= ChunkSize
        /\ sub[o].pos = MaxFile

\* C9: a subscription starts reading at offset zero whatever the other
\* subscriptions have read, and a step of one subscription (its tailer, its
\* watcher, its consumer receiving, its cancellation) leaves every other
\* subscription and the capture files as they are.
C9_SubscribersIndependent ==
    [][ \A o \in AllSubs :
          /\ (sub[o].pc = "idle" /\ sub'[o].ret = "stream") => sub'[o].pos = 0
          /\ (sub'[o] # sub[o] /\ file' = file)
                => \A q \in AllSubs \ {o} : sub'[q] = sub[q]
      ]_vars

\* Two subscriptions on the same job: one was cancelled before receiving the
\* whole file, the other has received all of it.
C9_Witness ==
    \E o, q \in AllSubs :
        /\ o # q
        /\ sub[o].uuid = sub[q].uuid
        /\ sub[o].ret = "stream" /\ sub[q].ret = "stream"
        /\ sub[q].cancelled /\ sub[q].pc = "closed"
        /\ Len(sub[q].received) < MaxFile
        /\ ~sub[o].cancelled
        /\ Len(sub[o].received) = MaxFile

\* C10: after the cancel token of a subscription has fired, its tailer
\* eventually closes the read handle and the output channel.
C10_CancelClosesStream ==
    \A o \in AllSubs :
        (sub[o].ret = "stream" /\ sub[o].cancelled) ~> (~sub[o].fopen /\ sub[o].dclosed)

\* A tailer whose watch was set up, on a job that has not exited, has
\* terminated: only the cancellation can have ended it.
C10_Witness ==
    \E o \in AllSubs :
        /\ sub[o].cancelled
        /\ sub[o].pc = "closed" /\ ~sub[o].fopen /\ sub[o].dclosed
        /\ sub[o].wpc # "none"
        /\ ~IsExited(sub[o].uuid)
        /\ Len(sub[o].received) > 0

\* C11: a subscription cancelled while its watcher is blocked in unix.Read
\* eventually has its watcher returned: the watch removed, the descriptor and
\* the event channel closed.
C11_CancelReleasesWatch ==
    \A o \in AllSubs :
        (sub[o].cancelled /\ sub[o].wpc = "read") ~> (sub[o].wpc = "closed")

\* C12: terminated is false when a job is registered, a step that makes it
\* true is the write of a Stop call on that job's handle, and no step makes
\* it false again.
C12_TerminatedOnlyThroughStop ==
    [][ \A h \in DOMAIN jobs' :
          IF h \in DOMAIN jobs
            THEN /\ jobs[h].status.Terminated => jobs'[h].status.Terminated
                 /\ (~jobs[h].status.Terminated /\ jobs'[h].status.Terminated)
                       => \E k \in AllStops :
                            karg[k] = h /\ kpc[k] = "write" /\ kpc'[k] = "done"
            ELSE ~jobs'[h].status.Terminated
      ]_vars

\* A job that Stop has marked terminated has since been finalized by its
\* reaper and had its state written by a Status call.
C12_Witness ==
    \E h \in DOMAIN jobs :
        /\ jobs[h].status.Terminated
        /\ rpc[h] = "done"
        /\ jobs[h].status.State = "EXITED"

\* C13: for a registered job with no Stop call on it in progress, terminated
\* is true exactly when some Stop call on its handle has been made.
C13_TerminatedIffStopCalled ==
    \A h \in DOMAIN jobs :
        (\A k \in AllStops : karg[k] = h => kpc[k] \in {"idle", "done"})
            => (jobs[h].status.Terminated
                  <=> \E k \in AllStops : karg[k] = h /\ kpc[k] = "done")

\* C14: no step sets the exited flag of a job back to false.
C14_ExitedNeverReverts ==
    [][ \A h \in DOMAIN jobs :
          jobs[h].status.Exited => (h \in DOMAIN jobs' /\ jobs'[h].status.Exited)
      ]_vars

\* A job whose exited flag is set has since had its state written by a Status
\* call and its terminated flag by a Stop call.
C14_Witness ==
    \E h \in DOMAIN jobs :
        /\ jobs[h].status.Exited
        /\ jobs[h].status.State = "EXITED"
        /\ jobs[h].status.Terminated

\* C15: exit_code and exited of a job are both at their initial values until
\* the reaper has left its critical section and both at the values of the
\* child's wait status from then on; the pair a Status call has read under the
\* shared lock is one of these two pairs; and a Status call that reads after
\* the reaper's critical section does not go on to read /proc.
C15_ExitFieldsWrittenTogether ==
    [][ /\ \A h \in DOMAIN jobs' :
             LET st == jobs'[h].status
             IN IF Finalized(h)'
                  THEN /\ st.Exited = ExitedOf(wstatus'[h])
                       /\ st.ExitCode = ExitCodeOf(wstatus'[h])
                  ELSE ~st.Exited /\ st.ExitCode = 0
        /\ \A c \in StatusCalls :
             (spc[c] = "read" /\ spc'[c] # "read")
                => LET h == sarg[c]
                   IN /\ \/ ~sloc'[c].exited /\ sloc'[c].exitCode = 0
                         \/ /\ sloc'[c].exited = ExitedOf(wstatus[h])
                            /\ sloc'[c].exitCode = ExitCodeOf(wstatus[h])
                            /\ Finalized(h)
                      /\ spc'[c] = "proc" <=> ~Finalized(h)
      ]_vars

\* One Status call has read the initial pair and gone on to /proc, and a later
\* one has read the pair the reaper wrote for a child that Stop killed.
C15_Witness ==
    \E c, d \in StatusCalls :
        /\ spc[c] = "done" /\ ~sloc[c].exited /\ sloc[c].exitCode = 0
        /\ sret[c].err = "nil"
        /\ spc[d] \in {"write", "copy"} /\ ~sloc[d].exited /\ sloc[d].exitCode = -1

\* C16: once the reaper has recorded the termination of the child, the job's
\* exited flag is true.
C16_ExitedAfterReaping ==
    \A h \in DOMAIN jobs : Finalized(h) => jobs[h].status.Exited

\* C17: a Status call that begins after a Stop call on the job has returned
\* success and the reaper has finalized the job returns state EXITED with
\* terminated=true.  (Before any Stop, a child found in state R, S or D is
\* reported as RUNNING with terminated=false; that is the mapping of MapState
\* and the initial value of the flag.)
C17_StatusAfterStopIsExited ==
    \A c \in StatusCalls :
        (spc[c] = "done" /\ sbegin[c].afterStop)
            => /\ sret[c].err = "nil"
               /\ sret[c].status.State = "EXITED"
               /\ sret[c].status.Terminated

\* C18: a Status call on a handle that Start has returned, with no Stop call
\* made and nobody having stopped or traced the child, succeeds with state
\* RUNNING or EXITED and terminated=false.
C18_StatusRightAfterStart ==
    \A c \in StatusCalls :
        ( /\ spc[c] = "done"
          /\ sbegin[c].known
          /\ sloc[c].state \notin {"STOPPED", "t"}
          /\ \A k \in AllStops : kpc[k] = "idle" )
            => /\ sret[c].err = "nil"
               /\ sret[c].status.State \in {"RUNNING", "EXITED"}
               /\ ~sret[c].status.Terminated

C20_FailedStartLeavesNoTrace ==
    [][ \A s \in Handles :
          stpc'[s] = "failed"
            => /\ s \notin DOMAIN jobs'
               /\ rpc'[s] = "none"
               /\ s \notin returned'
               /\ stpc[s] # "failed" => (jobs' = jobs /\ rpc' = rpc)
      ]_vars

\* A Start call has failed after another call had registered its job and
\* while that job's reaper runs.
C20_Witness ==
    \E s, r \in Handles :
        /\ stpc[s] = "failed"
        /\ r \in DOMAIN jobs
        /\ rpc[r] \in {"wait", "finalize"}
        /\ r < s

\* C21: no step removes a handle from the registry or binds it to another
\* job or pid.
C21_RegistryKeepsJobs ==
    [][ \A h \in DOMAIN jobs :
          /\ h \in DOMAIN jobs'
          /\ jobs'[h].UUID = jobs[h].UUID
          /\ jobs'[h].pid = jobs[h].pid
      ]_vars

\* The reaper of a job has finished, Stop has been called on the job, and a
\* Status call made after the reaper recorded the exit has been answered.
C21_Witness ==
    \E h \in DOMAIN jobs, c \in StatusCalls :
        /\ rpc[h] = "done"
        /\ jobs[h].UUID = h
        /\ \E k \in AllStops : kpc[k] = "done" /\ karg[k] = h
        /\ spc[c] = "done" /\ sarg[c] = h /\ sret[c].err = "nil"
        /\ sbegin[c].exited

\* C22: in every Status snapshot returned without error, exited=true comes
\* with state EXITED, and a state of RUNNING, ZOMBIE or STOPPED comes with
\* exited=false.
C22_SnapshotObeysDerivation ==
    \A c \in StatusCalls :
        (spc[c] = "done" /\ sret[c].err = "nil")
            => /\ sret[c].status.Exited => sret[c].status.State = "EXITED"
               /\ sret[c].status.State \in LiveStates => ~sret[c].status.Exited

\* C23: every step that writes a field of a job's Status holds w.mu
\* exclusively, and every step that reads one (Status reading exited and exit
\* code, Status copying the record it returns, the tailer checking exited)
\* holds it at least shared.
C23_StatusFieldsUnderLock ==
    [][ /\ \A c \in StatusCalls :
             /\ (spc[c] = "read" /\ spc'[c] # "read")
                   => LockHeld("StatusRead") \in {"shared", "exclusive"}
             /\ (spc[c] = "write" /\ spc'[c] # "write")
                   => LockHeld("StatusWrite") = "exclusive"
             /\ (spc[c] = "copy" /\ spc'[c] # "copy")
                   => LockHeld("StatusReturn") \in {"shared", "exclusive"}
        /\ \A h \in Handles :
             (rpc[h] = "finalize" /\ rpc'[h] # "finalize")
                => LockHeld("ReaperFinalize") = "exclusive"
        /\ \A k \in AllStops :
             (kpc[k] = "write" /\ kpc'[k] # "write")
                => LockHeld("StopWrite") = "exclusive"
        /\ \A o \in AllSubs :
             (sub[o].pc = "eofcheck" /\ sub'[o].pc # "eofcheck")
                => LockHeld("TailerEofCheck") \in {"shared", "exclusive"}
      ]_vars

\* C24: the rexec helper starts the user command only once every controller's
\* cgroup has been made and joined; when a mkdir or a write of cgroup creation
\* fails, Rexec returns an error, the command is never started and nothing
\* more is created.
C24_CommandOnlyInsideCgroups ==
    \A h \in Handles :
        /\ rx[h].started
             => /\ rx[h].joined = Controllers
                /\ rpc[h] \in {"none", "wait", "finalize", "cgroups"}
                      => rx[h].made = Controllers
        /\ rx[h].err = "cgroup"
             => /\ ~rx[h].started
                /\ rx[h].pc \in {"returned", "done"}
                /\ rx[h].joined # Controllers
        /\ (rx[h].pc \in {"returned", "done"} /\ rx[h].err # "stat"
               /\ rx[h].joined # Controllers)
             => rx[h].err = "cgroup"

C24_Witness ==
    \E g \in Handles :
        /\ rx[g].pc = "done" /\ rx[g].err = "cgroup" /\ ~rx[g].started
        /\ Cardinality(rx[g].made) = 2 /\ Cardinality(rx[g].joined) = 1
        /\ rpc[g] = "done" /\ jobs[g].status.ExitCode = 1

\* C25: isAuthorized(method, role) is true exactly for admin on Start, Stop,
\* Status and Output and for user on Status and Output; any other role and
\* any method absent from the table is denied, and the interceptor's verdict
\* on a request is that answer.
C25_IsAuthorizedMatchesTable ==
    /\ \A m \in Methods \cup {AbsentMethod}, r \in Roles \cup {""} :
         isAuthorized(m, r)
            <=> \/ r = "admin" /\ m \in Methods
                \/ r = "user" /\ m \in {"/job.JobManager/Status", "/job.JobManager/Output"}
    /\ \A q \in Requests :
         (req[q].method \in UnaryMethods /\ req[q].pc \in {"handler", "denied"})
            => (req[q].pc = "handler"
                  <=> \/ req[q].role = "admin"
                      \/ req[q].role = "user" /\ req[q].method = "/job.JobManager/Status")

C25_Witness ==
    \E p, q \in Requests :
        /\ req[p].pc = "denied" /\ req[p].role = "user"
        /\ req[p].method = "/job.JobManager/Start"
        /\ req[q].pc = "handler" /\ req[q].role = "user"
        /\ req[q].method = "/job.JobManager/Status"

\* C26: a handler of the service runs only for a caller whose certificate
\* carries a role that the role table lists for the method.
C26_HandlerOnlyForListedRole ==
    \A q \in Requests :
        req[q].pc = "handler"
            => /\ req[q].cert = "role"
               /\ \E i \in 1..Len(roleMap[req[q].method]) :
                     roleMap[req[q].method][i] = req[q].role

C28_ProcReadFailureLeavesStatus ==
    [][ \A c \in StatusCalls :
          (/\ spc[c] = "proc"
           /\ proc[jobs[sarg[c]].pid] = "reaped"
           /\ spc'[c] # "proc")
             => /\ spc'[c] = "done"
                /\ sret'[c].err = "ProcRead"
                /\ sret'[c].status = EmptyStatus
                /\ jobs' = jobs
      ]_vars

C28_Witness ==
    \E c \in StatusCalls :
        /\ spc[c] = "done" /\ sret[c].err = "ProcRead"
        /\ sret[c].status = EmptyStatus
        /\ sarg[c] \in DOMAIN jobs
        /\ jobs[sarg[c]].status.State = "ZOMBIE"
        /\ ~jobs[sarg[c]].status.Exited
        /\ rpc[sarg[c]] = "finalize"

\* C29: when watch fails (InotifyInit or InotifyAddWatch) for an Output call
\* on a registered handle, that call has returned an error, not a stream.
C29_WatchFailureIsReturned ==
    \A o \in AllSubs :
        (sub[o].pc = "closed" /\ sub[o].wpc = "none") => sub[o].ret # "stream"

\* C30: once the watcher's unix.Read has failed and the watcher has closed
\* the event channel, a tailer waiting for events on an uncancelled
\* subscription terminates and closes the output stream.
C30_TailerEndsAfterWatcherFailure ==
    \A o \in AllSubs :
        (sub[o].wpc = "closed" /\ sub[o].pc = "await" /\ ~sub[o].cancelled)
            ~> (sub[o].pc = "closed" /\ sub[o].dclosed)

\* C31: when the tailer of an uncancelled subscription has completed (end of
\* file on a job whose exited flag is set), its watcher returns too: the
\* watch is removed and the descriptor closed.
C31_CompletedSubscriptionReleasesWatch ==
    \A o \in AllSubs :
        (sub[o].pc = "closed" /\ ~sub[o].cancelled /\ sub[o].wpc \in {"read", "send"})
            ~> (sub[o].wpc = "closed")

\* C32: the reaper goes from Wait to recording exit code and exited, from
\* there to removing the cgroups and from there to closing the capture file;
\* the removal of the cgroups, failed or not, leaves every job's status as it
\* was and is followed by the close.
C32_ReaperOrder ==
    [][ \A h \in Handles :
          rpc'[h] # rpc[h]
            => \/ rpc[h] = "none" /\ rpc'[h] = "wait"
               \/ /\ rpc[h] = "wait" /\ rpc'[h] = "finalize"
                  /\ proc[h] = "zombie" /\ jobs' = jobs
               \/ /\ rpc[h] = "finalize" /\ rpc'[h] = "cgroups"
                  /\ jobs'[h].status.ExitCode = ExitCodeOf(wstatus[h])
                  /\ jobs'[h].status.Exited = ExitedOf(wstatus[h])
               \/ /\ rpc[h] = "cgroups" /\ rpc'[h] = "close"
                  /\ jobs' = jobs
                  /\ rx'[h].made \subseteq rx[h].made
               \/ /\ rpc[h] = "close" /\ rpc'[h] = "done"
                  /\ jobs' = jobs /\ rx' = rx
      ]_vars

C32_Witness ==
    \E h \in Handles :
        /\ rpc[h] = "done"
        /\ rx[h].started /\ rx[h].pc = "done"
        /\ rx[h].made # {} /\ rx[h].made # Controllers
        /\ jobs[h].status.Exited /\ jobs[h].status.ExitCode = 1

\* C33: a Status call racing with a Stop that has delivered SIGKILL but not
\* yet written terminated can return EXITED with terminated=false; once that
\* Stop has returned nil the job's terminated flag is true all the same.
C33_TerminatedAfterRacingStatus ==
    \A c \in StatusCalls, k \in AllStops :
        (/\ spc[c] = "done" /\ sret[c].err = "nil"
         /\ sret[c].status.State = "EXITED" /\ ~sret[c].status.Terminated
         /\ kpc[k] = "done" /\ kret[k] = "nil" /\ karg[k] = sarg[c])
            => jobs[karg[k]].status.Terminated

C33_Witness ==
    \E c \in StatusCalls, k \in AllStops :
        /\ spc[c] = "done" /\ sret[c].err = "nil"
        /\ sret[c].status.State = "EXITED" /\ ~sret[c].status.Terminated
        /\ sret[c].status.ExitCode = -1
        /\ wstatus[sarg[c]].signaled
        /\ kpc[k] = "write" /\ karg[k] = sarg[c]
        /\ ~jobs[sarg[c]].status.Terminated

\* C34: every chunk the tailer emits holds between one byte and ChunkSize
\* bytes, and on an uncancelled subscription to a job that had exited when
\* Output was called and whose file holds at most ChunkSize bytes, the first
\* receive (of a chunk, or of the closing of the stream) yields the whole file.
C34_FirstReceiveWholeFile ==
    \A o \in AllSubs :
        /\ sub[o].pc \in {"emit0", "emit"}
              => Len(sub[o].chunk) >= 1 /\ Len(sub[o].chunk) <= ChunkSize
        /\ (/\ sub[o].ret = "stream" /\ sub[o].exitedAtStart /\ ~sub[o].cancelled
            /\ Len(file[sub[o].uuid]) > 0 /\ Len(file[sub[o].uuid]) <= ChunkSize
            /\ (sub[o].received # <<>> \/ sub[o].dclosed))
              => sub[o].received = file[sub[o].uuid]

\* C35: no Start, Status or Stop call and no reaper waits for the registry
\* lock behind a blocked party: every call in progress returns and every
\* reaper whose child has terminated finishes, whatever the tailer, the
\* watcher and a subscriber that never receives are doing.
C35_OperationsComplete ==
    /\ \A c \in FirstCall : (spc[c] \notin {"idle", "done"}) ~> (spc[c] = "done")
    /\ \A k \in FirstCall : (kpc[k] \notin {"idle", "done"}) ~> (kpc[k] = "done")
    /\ \A s \in FirstJob :
         (stpc[s] \notin {"idle", "done", "failed"}) ~> (stpc[s] \in {"done", "failed"})
    /\ \A h \in FirstJob : (rpc[h] = "wait" /\ proc[h] = "zombie") ~> (rpc[h] = "done")

C35_Witness ==
    \E o \in AllSubs, c \in StatusCalls, k \in AllStops :
        /\ sub[o].pc = "emit0" /\ sub[o].received = <<>> /\ ~sub[o].cancelled
        /\ ~sub[o].exitedAtStart
        /\ spc[c] = "done" /\ sret[c].err = "nil" /\ sarg[c] = sub[o].uuid
        /\ sret[c].status.State = "EXITED"
        /\ kpc[k] = "done" /\ kret[k] = "nil" /\ karg[k] = sub[o].uuid
        /\ rpc[sub[o].uuid] = "done"

\* C36: when the tailer has closed the stream of an uncancelled subscription
\* whose watch was set up, the subscriber has received every byte of the
\* capture file.
C36_SelfClosedStreamIsComplete ==
    \A o \in AllSubs :
        (sub[o].pc = "closed" /\ ~sub[o].cancelled /\ sub[o].wpc # "none")
            => sub[o].received = file[sub[o].uuid]

\* C37: on a subscription whose watch is in place and whose subscriber keeps
\* receiving, every byte the capture file comes to hold is eventually
\* received, unless the subscription is cancelled or the watcher's read fails.
C37_AppendedBytesAreEmitted ==
    \A o \in FirstCall, n \in 1..MaxFile :
        (sub[o].wpc \in {"read", "send"} /\ Len(file[sub[o].uuid]) >= n)
            ~> (sub[o].cancelled \/ sub[o].wpc = "closed" \/ Len(sub[o].received) >= n)

\* C38: the data channel is closed once, by the tailer as it returns, and
\* nothing is sent on it afterwards; the event channel is closed once, by
\* the watcher as it returns, and an event passes over it only while the
\* watcher is sending and the tailer receiving.
C38_ChannelsClosedOnce ==
    [][ \A o \in AllSubs :
          /\ sub[o].dclosed
                => /\ sub'[o].dclosed
                   /\ sub'[o].pc = "closed"
                   /\ sub'[o].received = sub[o].received
                   /\ sub'[o].chunk = <<>>
          /\ (~sub[o].dclosed /\ sub'[o].dclosed)
                => /\ sub[o].pc \notin {"idle", "failed", "closed"}
                   /\ sub'[o].pc = "closed"
          /\ sub[o].wpc = "closed" => sub'[o].wpc = "closed"
          /\ (sub[o].wpc # "closed" /\ sub'[o].wpc = "closed")
                => sub[o].wpc \in {"read", "send"}
          /\ (sub[o].wpc = "send" /\ sub'[o].wpc = "read")
                => sub[o].pc = "await" /\ sub'[o].pc = "drain"
      ]_vars

C38_Witness ==
    \E o \in AllSubs :
        /\ sub[o].pc = "closed" /\ sub[o].dclosed
        /\ sub[o].wpc = "closed"
        /\ sub[o].cancelled
        /\ Len(sub[o].received) >= 2
        /\ Len(sub[o].received) < Len(file[sub[o].uuid])

\* C39: a step of Stop changes at most the terminated flag of the job it was
\* called on, a step of Status at most that job's state, a step of the
\* reaper at most its own job's exit code and exited flag, and a step of an
\* Output subscription nothing of any job; only Start's registration changes
\* the set of registered handles.
C39_FrameOfEachOperation ==
    [][ /\ \A k \in AllStops :
             kpc'[k] # kpc[k]
                => \/ jobs' = jobs
                   \/ /\ kpc[k] = "write"
                      /\ jobs' = [jobs EXCEPT ![karg[k]].status.Terminated = TRUE]
        /\ \A c \in StatusCalls :
             spc'[c] # spc[c]
                => \/ jobs' = jobs
                   \/ /\ spc[c] = "write"
                      /\ jobs' = [jobs EXCEPT ![sarg[c]].status.State = sloc[c].state]
        /\ \A h \in Handles :
             rpc'[h] # rpc[h]
                => \/ jobs' = jobs
                   \/ /\ rpc[h] = "finalize"
                      /\ jobs' = [jobs EXCEPT ![h].status.ExitCode = ExitCodeOf(wstatus[h]),
                                               ![h].status.Exited = ExitedOf(wstatus[h])]
        /\ \A o \in AllSubs : sub'[o] # sub[o] => jobs' = jobs
        /\ DOMAIN jobs' # DOMAIN jobs
             => \E s \in Handles : stpc[s] = "register" /\ stpc'[s] = "go"
      ]_vars

C39_Witness ==
    \E h, g \in DOMAIN jobs, c \in StatusCalls, k \in AllStops, o \in AllSubs :
        /\ h # g
        /\ kpc[k] = "done" /\ kret[k] = "nil" /\ karg[k] = h
        /\ spc[c] = "done" /\ sret[c].err = "nil" /\ sarg[c] = h
        /\ rpc[h] = "done" /\ rpc[g] = "done"
        /\ sub[o].uuid = h /\ sub[o].pc = "closed"
        /\ jobs[h].status =
              [State |-> "EXITED", Terminated |-> TRUE, ExitCode |-> 1, Exited |-> TRUE]
        /\ jobs[g].status =
              [State |-> "", Terminated |-> FALSE, ExitCode |-> 0, Exited |-> TRUE]

\* C40: whatever the configured output path, the file an Output call on a
\* registered handle opens is the capture file Start created for that handle.
C40_OutputOpensCreatedFile ==
    [][ \A o \in AllSubs :
          (sub[o].pc = "idle" /\ sub'[o].pc # "idle" /\ sub'[o].uuid \in DOMAIN jobs)
             => outFilePath(config, sub'[o].uuid) = createOutFilePath(sub'[o].uuid)
      ]_vars
====
